---- MODULE Spec2Model ----
(***************************************************************************)
(* A model of the synerfgine engine of instant-ngp: the Display's image    *)
(* counter, the Engine's per-frame scene staging and accumulation reset,   *)
(* the gpu_draw_object intersection kernel, the frame's use of the compute *)
(* stream, the loading of the scene file and the blit program.             *)
(*                                                                         *)
(* The specifications share the variables; each one moves its own groups   *)
(* and holds the other groups at their initial value:                      *)
(*   SpecDisplay  calls of Display::save_image / advance_image_count       *)
(*   Spec         Engine::frame, one action per call from main_func's loop *)
(*   SpecKernel   one thread of gpu_draw_object, one action per step       *)
(*   SpecSync     Engine::frame stage by stage, with the kernels in flight *)
(*   SpecMain     main_func: set_virtual_world, init, the render loop      *)
(*   SpecPresent  Display::present and one fragment of main.frag           *)
(***************************************************************************)
EXTENDS Integers, Sequences, FiniteSets, TLC

(* ------------------------------ bounds --------------------------------- *)
\* the largest configured img_count (output.img_count of the scene file)
MaxImgCountMax == 3
\* the number of Display calls a run of SpecDisplay makes
MaxCalls == 5
\* the number of entities (objects, materials and lights together) of a scene file
MaxEntities == 3
\* the cap of the raytracer's sample counter
MaxSpp == 3
\* the longest triangle list given to gpu_draw_object
MaxTris == 3
\* ray_intersect returns a parameter in 0 .. MaxT
MaxT == 5
\* the number of frames a run of SpecSync follows stage by stage
MaxFrames == 3
\* the number of objects of a SyntheticWorld, and of triangles of each
MaxObjects == 2
MaxObjTris == 1
\* the number of create_object calls
MaxCreates == 3
\* the number of init_window and destroy calls over all Display instances
MaxWindowCalls == 4
\* the largest number typed into the "Obj idx" slider
MaxTyped == 3

(* ------------------------ program constants ---------------------------- *)
\* ngp::MIN_RT_DIST and ngp::MAX_RT_DIST on the integer scale 0 .. MaxT
MIN_RT_DIST == 1
MAX_RT_DIST == 4

Normals == {"n1", "n2"}

\* color channels are fixed-point numbers: Unit stands for 1.0, so 0.2 is 1
Unit == 5
Black == <<0, 0, 0>>
\* the diffuse color of a hit, vec3(1.0, 0.2, 0.0)
DiffuseColor == <<5, 1, 0>>
\* the values rendering.clear_color can configure: the default vec3(0.0) and white
ClearColors == {Black, <<Unit, Unit, Unit>>}
Uninit == "uninit"
\* the result of the last call before there was a call: not read by anything, and a
\* bool as every result is
NoRet == FALSE

VARIABLES
    \* Display
    m_img_count,        \* Display::m_img_count
    m_img_count_max,    \* Display::m_img_count_max
    m_is_init,          \* Display::m_is_init (static)
    files,              \* the output-XXX.png writes attempted, in order
    ret,                \* what the last save_image / advance_image_count returned
    calls,              \* how many calls of each were made since init_window
    \* gpu_draw_object, one thread
    triangles,          \* the triangle list: ray_intersect's t and the normal of each
    sun_dot,            \* dot(normal, to_sun) of each normal
    kpc,                \* the thread's position
    k,                  \* the loop index (1-based)
    dt,                 \* the hit distance kept
    normal,             \* the normal kept
    clear_color,        \* Engine::m_default_clear_color, as rendering.clear_color set it
    rgba,               \* rgba[i]: the channels r, g, b, a
    depth,              \* depth[i]
    \* Engine
    m_objects,          \* Engine::m_objects, each [val, is_dirty]
    m_materials,        \* Engine::m_materials
    m_lights,           \* Engine::m_lights
    d_world,            \* GPUMemory<ObjectTransform> d_world
    d_materials,        \* GPUMemory<Material> d_materials
    d_lights,           \* GPUMemory<Light> d_lights
    m_is_dirty,         \* Engine::m_is_dirty
    m_enable_animations,
    m_end_on_loop,
    has_output_dest,    \* !m_output_dest.empty()
    m_syn_camera_reset, \* Testbed::m_syn_camera_reset
    rt_spp,             \* the raytracer's accumulated sample count
    alive,              \* Display::is_alive()
    running,            \* main_func's loop has not left yet
    fr,                 \* what the last Engine::frame call did
    \* Engine::frame stage by stage, and the compute stream
    fpc,                \* the host thread's position in Engine::frame
    stream_q,           \* the kernels launched on m_stream_id and not yet complete, in order
    m_show_nerf,        \* Engine::m_show_nerf
    frame_no,           \* the number of the frame under way
    launched,           \* the kernels the frame under way has launched
    \* main_func
    config,             \* the scene file: which keys it has, and their values
    mpc,                \* main's position
    m_has_output,       \* Engine::m_has_output
    log,                \* the error lines main has logged
    \* Display::present and the blit program (main.frag)
    ppc,                \* the position: before present, bound, a fragment shaded
    filter_type,        \* the uniform filter_type
    tex_filter,         \* GL_TEXTURE_MIN/MAG_FILTER of the four textures
    warp_x,             \* the uniform warp_x
    warp_y,             \* the uniform warp_y
    resolution,         \* the uniforms nerf_resolution, syn_resolution, full_resolution
    UVs,                \* the fragment's input UVs
    tex_coords,         \* main's tex_coords after unwarp
    frag_color,         \* the output frag_color
    gl_FragDepth,       \* the output gl_FragDepth
    \* unwarp on its own
    uwpc,               \* the position: inputs chosen, unwarped, warped back
    uw_warp,            \* the FoveationWarp given
    uw_y,               \* two display coordinates, the first not above the second
    uw_x,               \* unwarp of each
    uw_back,            \* the forward warp of uw_x[1]
    \* SyntheticWorld::handle
    hpc,                \* the position in handle
    hw_objects,         \* the triangle lists of m_objects, in iteration order
    hw_next,            \* the index of the next object the loop draws
    \* Display::transfer_texture and the OpenGL state
    tpc,                \* the position in transfer_texture
    gl,                 \* the OpenGL state: the enable flags, depth function and depth mask
    tt_saved,           \* the locals tex, depth, cull
    tt_entry,           \* the OpenGL state when transfer_texture was called
    tt_blit_program,    \* m_blit_program
    \* SyntheticWorld::create_object
    cpc,                \* the position in create_object
    w_objects,          \* m_objects: the name of each object |-> the load that made it
    w_loads,            \* per finished create_object call, the file name and the name given
    c_file,             \* fp.filename().string()
    c_k,                \* the local k
    c_name,             \* the local name
    \* Display::init_window and Display::destroy over several Display instances
    is_init_static,     \* the static Display::m_is_init, shared by all instances
    d_glfw_window,      \* m_glfw_window of each Display (0 is nullptr)
    d_completed,        \* whether each Display completed init_window since its last teardown
    glfw_windows,       \* the windows GLFW holds
    window_calls,       \* the number of calls made
    init_window_ret,    \* what the last init_window returned (0 is nullptr)
    teardowns,          \* the teardowns performed, in order
    \* Engine::imgui
    m_transform_type,   \* the selected type of entity
    m_transform_idx,    \* the selected index
    lights_size,        \* m_lights.size()
    objects_size,       \* m_objects.size()
    m_pos_to_translate, \* the four edit targets
    m_rot_to_rotate,
    m_scale_to_scale,
    m_obj_dirty_marker,
    imgui_called        \* whether imgui has run

displayVars == <<m_img_count, m_img_count_max, m_is_init, files, ret, calls>>
kernelVars == <<triangles, sun_dot, clear_color, kpc, k, dt, normal, rgba, depth>>
sceneVars == <<m_objects, m_materials, m_lights, d_world, d_materials, d_lights>>
engineVars == <<sceneVars, m_is_dirty, m_enable_animations, m_end_on_loop,
                has_output_dest, m_syn_camera_reset, rt_spp, alive, running, fr>>
syncVars == <<fpc, stream_q, m_show_nerf, frame_no, launched>>
mainVars == <<config, mpc, m_has_output, log>>
presentVars == <<ppc, filter_type, tex_filter, warp_x, warp_y, resolution, UVs,
                 tex_coords, frag_color, gl_FragDepth>>
unwarpVars == <<uwpc, uw_warp, uw_y, uw_x, uw_back>>
handleVars == <<hpc, hw_objects, hw_next>>
glVars == <<tpc, gl, tt_saved, tt_entry, tt_blit_program>>
worldVars == <<cpc, w_objects, w_loads, c_file, c_k, c_name>>
imguiVars == <<m_transform_type, m_transform_idx, lights_size, objects_size,
               m_pos_to_translate, m_rot_to_rotate, m_scale_to_scale, m_obj_dirty_marker,
               imgui_called>>
windowVars == <<is_init_static, d_glfw_window, d_completed, glfw_windows, window_calls,
                init_window_ret, teardowns>>
vars == <<displayVars, kernelVars, engineVars, syncVars, mainVars, presentVars, unwarpVars,
          handleVars, glVars, worldVars, windowVars, imguiVars>>

(* ============================== Display ================================ *)

\* init_window: the counter starts at 0 and the static flag is set
DisplayAfterInitWindow ==
    /\ m_img_count = 0
    /\ m_is_init = TRUE
    /\ files = <<>>
    /\ ret = NoRet
    /\ calls = [save |-> 0, adv |-> 0]

\* a Display that takes no part in a specification
DisplayIdle ==
    /\ DisplayAfterInitWindow
    /\ m_img_count_max = 0

\* save_image's early return: if (m_img_count > m_img_count_max) return false;
SaveImageRefuses(count, max) == count > max

\* advance_image_count's result: m_img_count++ < m_img_count_max
AdvanceResult_inclusive(count, max) == count <= max
AdvanceResult(count, max) == count < max

\* Display::save_image; write_ok is whether stbi_write_png succeeded (its result is
\* dropped: the success line is logged and true returned either way)
SaveImageBody(write_ok) ==
    /\ IF SaveImageRefuses(m_img_count, m_img_count_max)
         THEN /\ ret' = FALSE
              /\ UNCHANGED <<m_img_count, files>>
         ELSE /\ m_img_count' = m_img_count + 1
              /\ files' = Append(files, [n |-> m_img_count + 1, ok |-> write_ok,
                                         logged |-> "success"])
              /\ ret' = TRUE
    /\ calls' = [calls EXCEPT !.save = @ + 1]
    /\ UNCHANGED <<m_img_count_max, m_is_init>>

\* Display::advance_image_count
AdvanceImageCountBody_noIncrement ==
    /\ ret' = AdvanceResult(m_img_count, m_img_count_max)
    /\ calls' = [calls EXCEPT !.adv = @ + 1]
    /\ UNCHANGED <<m_img_count, m_img_count_max, m_is_init, files>>
AdvanceImageCountBody ==
    /\ ret' = AdvanceResult(m_img_count, m_img_count_max)
    /\ m_img_count' = m_img_count + 1
    /\ calls' = [calls EXCEPT !.adv = @ + 1]
    /\ UNCHANGED <<m_img_count_max, m_is_init, files>>

\* a call of save_image on a Display of its own
save_image(write_ok) ==
    /\ calls.save + calls.adv < MaxCalls
    /\ SaveImageBody(write_ok)

\* a call of advance_image_count on a Display of its own
advance_image_count ==
    /\ calls.save + calls.adv < MaxCalls
    /\ AdvanceImageCountBody

(* ========================== gpu_draw_object ============================ *)

T == 0 .. MaxT
Triangle == [t : T, n : Normals]
TriangleLists == UNION {[1 .. len -> Triangle] : len \in 0 .. MaxTris}

\* a kernel that takes no part in a specification
KernelIdle ==
    /\ triangles = <<>>
    /\ sun_dot = [nm \in Normals |-> 0]
    /\ clear_color = Black
    /\ kpc = "idle"
    /\ k = 0
    /\ dt = 0
    /\ normal = Uninit
    /\ rgba = Uninit
    /\ depth = Uninit

\* the thread before its first statement, for every triangle list and light side
KernelInputs ==
    /\ triangles \in TriangleLists
    /\ sun_dot \in [Normals -> {-1, 0, 1}]
    /\ clear_color \in ClearColors
    /\ kpc = "start"
    /\ k = 0
    /\ dt = 0
    /\ normal = Uninit
    /\ rgba = Uninit
    /\ depth = Uninit

\* vec4(vec3, a) and float * vec3
Vec4(rgb, a) == <<rgb[1], rgb[2], rgb[3], a>>
Scaled(f, rgb) == <<f * rgb[1], f * rgb[2], f * rgb[3]>>

\* lines 123-128: the defaults written before the loop
KernelBegin ==
    /\ kpc = "start"
    /\ rgba' = Vec4(Black, Unit)
    /\ depth' = MAX_RT_DIST
    /\ dt' = MAX_RT_DIST
    /\ normal' = Uninit
    /\ k' = 1
    /\ kpc' = "loop"
    /\ UNCHANGED <<triangles, sun_dot, clear_color>>

\* the loop's test: if (t < dt && t > ngp::MIN_RT_DIST)
Closer_noMin(t, cur) == t < cur
Closer_ties(t, cur) == t <= cur /\ t > MIN_RT_DIST
Closer(t, cur) == t < cur /\ t > MIN_RT_DIST

\* one iteration of for (k = 0; k < tri_count; ++k)
KernelLoop ==
    /\ kpc = "loop"
    /\ IF k <= Len(triangles)
         THEN /\ IF Closer(triangles[k].t, dt)
                   THEN dt' = triangles[k].t /\ normal' = triangles[k].n
                   ELSE UNCHANGED <<dt, normal>>
              /\ k' = k + 1
              /\ kpc' = "loop"
         ELSE /\ kpc' = "shade"
              /\ UNCHANGED <<dt, normal, k>>
    /\ UNCHANGED <<triangles, sun_dot, clear_color, rgba, depth>>

\* float ndotv = dot(normal, to_sun): used as computed, with its sign
Ndotv(d) == d

\* lines 137-146: the color of a hit is ndotv * (1, 0.2, 0), of a miss vec3(0); the
\* write of depth[i] is commented out, so depth[i] keeps the default of line 124; the
\* kernel has no parameter for the clear color
KernelShade ==
    /\ kpc = "shade"
    /\ IF dt < MAX_RT_DIST
         THEN rgba' = Vec4(Scaled(Ndotv(sun_dot[normal]), DiffuseColor), Unit)
         ELSE rgba' = Vec4(Black, Unit)
    /\ kpc' = "done"
    /\ UNCHANGED <<triangles, sun_dot, clear_color, k, dt, normal, depth>>

(* =============================== Engine ================================ *)

Vals == {0, 1}
Categories == {"objects", "materials", "lights"}

\* an entity as its constructor leaves it: the constructors are not part of the
\* sources at hand; creation counts as a CPU-side mutation and marks the entity dirty
NewEntity(v) == [val |-> v, is_dirty |-> TRUE]
EntityLists(max) == UNION {[1 .. len -> {NewEntity(v) : v \in Vals}] : len \in 0 .. max}

\* a UI edit of an entity (X::imgui, or the gizmo through m_pos_to_translate and
\* m_obj_dirty_marker): the value changes and the entity is marked dirty
MarkEdited(e) == [val |-> 1 - e.val, is_dirty |-> TRUE]
Edit(list, S) == [i \in DOMAIN list |-> IF i \in S THEN MarkEdited(list[i]) ELSE list[i]]

\* X::next_frame(m_anim_speed): the animation moves the entity
NextFrameOf(e) == [e EXCEPT !.val = 1 - e.val]

DirtySet(list) == {i \in DOMAIN list : list[i].is_dirty}

\* is_any_obj_dirty = is_any_obj_dirty || m.is_dirty over the list
IsAnyDirty_lastOnly(list) == list # <<>> /\ list[Len(list)].is_dirty
IsAnyDirty(list) == \E i \in DOMAIN list : list[i].is_dirty

\* m.is_dirty = false for every m (for (auto& m : ...))
ClearDirty_byValue(list) == list
ClearDirty(list) == [i \in DOMAIN list |-> [list[i] EXCEPT !.is_dirty = FALSE]]

\* the three upload tests of update_world_objects
ObjectsNeedUpload(any_dirty, anim) == any_dirty \/ anim
MaterialsNeedUpload_always(any_dirty) == TRUE
MaterialsNeedUpload(any_dirty) == any_dirty
LightsNeedUpload(any_dirty, anim) == any_dirty \/ anim

\* needs_reset = needs_reset || m_is_dirty
NeedsReset_entitiesOnly(needs_reset, is_dirty) == needs_reset
NeedsReset(needs_reset, is_dirty) == needs_reset \/ is_dirty

\* h_world.emplace_back(obj.gpu_node(), ..., obj.get_mat_idx())
ObjectTransformOf(obj) == [val |-> obj.val]
HWorld(objs) == [i \in DOMAIN objs |-> ObjectTransformOf(objs[i])]

Animate(list, anim) == IF anim THEN [i \in DOMAIN list |-> NextFrameOf(list[i])] ELSE list

\* Engine::update_world_objects on the lists and arrays given: the lists and arrays
\* after it, the categories it uploaded and whether it reset accumulation
UpdateWorldObjects(objs, mats, lights, dw, dm, dl, anim, is_dirty) ==
    LET obj_dirty == IsAnyDirty(objs)
        objs1 == ClearDirty(objs)
        obj_up == ObjectsNeedUpload(obj_dirty, anim)
        objs2 == IF obj_up THEN Animate(objs1, anim) ELSE objs1
        mat_dirty == IsAnyDirty(mats)
        mats1 == ClearDirty(mats)
        mat_up == MaterialsNeedUpload(mat_dirty)
        light_dirty == IsAnyDirty(lights)
        lights1 == ClearDirty(lights)
        light_up == LightsNeedUpload(light_dirty, anim)
        lights2 == IF light_up THEN Animate(lights1, anim) ELSE lights1
        needs_reset == obj_up \/ mat_up \/ light_up
    IN  [objects |-> objs2, materials |-> mats1, lights |-> lights2,
         d_world |-> IF obj_up THEN HWorld(objs2) ELSE dw,
         d_materials |-> IF mat_up THEN mats1 ELSE dm,
         d_lights |-> IF light_up THEN lights2 ELSE dl,
         uploaded |-> (IF obj_up THEN {"objects"} ELSE {})
                      \cup (IF mat_up THEN {"materials"} ELSE {})
                      \cup (IF light_up THEN {"lights"} ELSE {}),
         reset |-> NeedsReset(needs_reset, is_dirty)]

NoFrame == [kind |-> "none"]

\* the UI events of a frame: a slider of the Shader section that sets m_is_dirty
\* ("shadow"), one that does not ("blur"), the relative-scale slider ("scale"),
\* a window resize seen by glfwPollEvents ("resize")
UiEvents == {"none", "shadow", "blur", "scale", "resize"}

\* Engine::frame when the display is no longer alive: return false
FrameDead ==
    /\ running
    /\ ~alive
    /\ running' = FALSE
    /\ fr' = [kind |-> "dead"]
    /\ UNCHANGED <<sceneVars, m_is_dirty, m_enable_animations, m_end_on_loop,
                   has_output_dest, m_syn_camera_reset, rt_spp, alive>>
    /\ UNCHANGED displayVars

\* Engine::frame when begin_frame sees ESC, Q or a close request: destroy(), return false
FrameQuit ==
    /\ running
    /\ alive
    /\ m_is_init' = FALSE
    /\ running' = FALSE
    /\ fr' = [kind |-> "quit"]
    /\ UNCHANGED <<sceneVars, m_is_dirty, m_enable_animations, m_end_on_loop,
                   has_output_dest, m_syn_camera_reset, rt_spp, alive>>
    /\ UNCHANGED <<m_img_count, m_img_count_max, files, ret, calls>>

\* Engine::frame past begin_frame, with the frame's inputs: the UI event, a camera
\* move, the window's close callback, the entities edited, the file write.
\* m_show_ui only gates the widgets and Tab toggles it at the top of imgui(), so every
\* event can reach every frame: the flag is left out.
FrameRender(ev, cam, close_cb, eo, em, el, write_ok) ==
    \E is_dirty1 \in {m_is_dirty \/ ev = "resize" \/ ev = "shadow"} :
    \E u \in {UpdateWorldObjects(Edit(m_objects, eo), Edit(m_materials, em),
                                Edit(m_lights, el), d_world, d_materials, d_lights,
                                m_enable_animations, is_dirty1)} :
    LET cam_reset == m_syn_camera_reset \/ cam
        resets == (IF ev = "scale" THEN 1 ELSE 0) + (IF cam_reset THEN 1 ELSE 0)
                  + (IF u.reset THEN 1 ELSE 0)
        spp1 == (IF resets > 0 THEN 0 ELSE rt_spp) + 1
        alive1 == alive /\ ~close_cb
    IN  /\ running
        /\ alive
        /\ spp1 <= MaxSpp
        /\ m_is_dirty' = is_dirty1
        /\ m_syn_camera_reset' = FALSE
        /\ m_objects' = u.objects
        /\ m_materials' = u.materials
        /\ m_lights' = u.lights
        /\ d_world' = u.d_world
        /\ d_materials' = u.d_materials
        /\ d_lights' = u.d_lights
        /\ rt_spp' = spp1
        /\ alive' = alive1
        /\ fr' = [kind |-> "full",
                  first |-> fr.kind = "none",
                  dirty |-> [objects |-> DirtySet(m_objects) \cup eo,
                             materials |-> DirtySet(m_materials) \cup em,
                             lights |-> DirtySet(m_lights) \cup el],
                  event |-> ev,
                  camera |-> cam_reset,
                  uploaded |-> u.uploaded,
                  update_reset |-> u.reset,
                  rt_resets |-> resets]
        /\ IF has_output_dest
             THEN SaveImageBody(write_ok) /\ running' = ret'
             ELSE IF m_end_on_loop
                    THEN AdvanceImageCountBody /\ running' = ret'
                    ELSE running' = alive1 /\ UNCHANGED displayVars
        /\ UNCHANGED <<m_enable_animations, m_end_on_loop, has_output_dest>>

\* the inputs a frame is explored with: one UI event or a set of edited entities, and
\* with either a camera move and a close request; the file write can fail only
\* where a file is written
FrameInputs(ev, eo, em, el, write_ok) ==
    /\ ev # "none" => eo = {} /\ em = {} /\ el = {}
    /\ ~has_output_dest => write_ok

\* the scene lists set_virtual_world builds from a scene file of n entities at most
Scenes(n) ==
    {sc \in [objects : EntityLists(n), materials : EntityLists(n), lights : EntityLists(n)] :
        Len(sc.objects) + Len(sc.materials) + Len(sc.lights) <= n}

\* the engine after set_virtual_world and init, before the first frame
InitEngine(scenes) ==
    /\ \E sc \in scenes :
        /\ m_objects = sc.objects
        /\ m_materials = sc.materials
        /\ m_lights = sc.lights
    /\ d_world = <<>>
    /\ d_materials = <<>>
    /\ d_lights = <<>>
    /\ m_is_dirty = TRUE
    /\ m_enable_animations \in BOOLEAN
    /\ m_syn_camera_reset \in BOOLEAN
    /\ rt_spp = 0
    /\ alive = TRUE
    /\ running = TRUE
    /\ fr = NoFrame

\* an engine that takes no part in a specification
EngineIdle ==
    /\ m_objects = <<>>
    /\ m_materials = <<>>
    /\ m_lights = <<>>
    /\ d_world = <<>>
    /\ d_materials = <<>>
    /\ d_lights = <<>>
    /\ m_is_dirty = TRUE
    /\ m_enable_animations = FALSE
    /\ m_end_on_loop = FALSE
    /\ has_output_dest = FALSE
    /\ m_syn_camera_reset = FALSE
    /\ rt_spp = 0
    /\ alive = TRUE
    /\ running = FALSE
    /\ fr = NoFrame

(* ================== Engine::frame and the compute stream ================ *)

\* a stream that takes no part in a specification
SyncIdle ==
    /\ fpc = "idle"
    /\ stream_q = <<>>
    /\ m_show_nerf = FALSE
    /\ frame_no = 0
    /\ launched = {}

\* linear_kernel(..., stream, ...) and the passes that launch on the frame's stream:
\* the launch returns at once and the kernel is queued behind the earlier ones
Launch(kernel) ==
    /\ stream_q' = Append(stream_q, kernel)
    /\ launched' = launched \cup {kernel}

\* cudaStreamSynchronize(stream) / cudaDeviceSynchronize(): the host thread goes on
\* when nothing queued is left
Synchronized_noWait(q) == TRUE
Synchronized(q) == q = <<>>

\* the device completes the kernel at the head of the stream
KernelCompletes ==
    /\ stream_q # <<>>
    /\ stream_q' = Tail(stream_q)
    /\ UNCHANGED <<fpc, m_show_nerf, frame_no, launched>>

\* lines 353-357: is_alive, begin_frame, imgui; false is returned when the display is
\* dead or a quit key was seen
StBegin ==
    /\ fpc = "begin"
    /\ \E go_on \in BOOLEAN : fpc' = IF go_on THEN "resize" ELSE "exit"
    /\ launched' = {}
    /\ UNCHANGED <<stream_q, m_show_nerf, frame_no>>

\* lines 359-362 and Engine::resize: init_rand_state is launched when the window
\* size or the resolution factor changed
StResize ==
    /\ fpc = "resize"
    /\ \E changed \in BOOLEAN :
        IF changed THEN Launch("init_rand_state") /\ fpc' = "resize_sync"
        ELSE fpc' = "sync_input" /\ UNCHANGED <<stream_q, launched>>
    /\ UNCHANGED <<m_show_nerf, frame_no>>

\* resize's sync(m_stream_id), line 250
StResizeSync ==
    /\ fpc = "resize_sync"
    /\ Synchronized(stream_q)
    /\ fpc' = "sync_input"
    /\ UNCHANGED <<stream_q, m_show_nerf, frame_no, launched>>

\* line 363: sync(m_stream_id), then the user input and the camera path (364-371)
StSyncInput ==
    /\ fpc = "sync_input"
    /\ Synchronized(stream_q)
    /\ fpc' = "upload"
    /\ UNCHANGED <<stream_q, m_show_nerf, frame_no, launched>>

\* line 372: update_world_objects copies the scene arrays from the host and ends with
\* cudaDeviceSynchronize() (line 126)
StUpload ==
    /\ fpc = "upload"
    /\ Synchronized(stream_q)
    /\ fpc' = "render"
    /\ UNCHANGED <<stream_q, m_show_nerf, frame_no, launched>>

\* lines 386-398: m_raytracer.render launches the synthetic pass
StRender ==
    /\ fpc = "render"
    /\ Launch("raytrace")
    /\ fpc' = IF m_show_nerf THEN "nerf" ELSE "overlay"
    /\ UNCHANGED <<m_show_nerf, frame_no>>

\* lines 400-403: m_testbed->render(m_stream_id, ...) launches the neural pass
StNerf ==
    /\ fpc = "nerf"
    /\ Launch("nerf")
    /\ fpc' = "nerf_sync"
    /\ UNCHANGED <<m_show_nerf, frame_no>>

\* line 404: sync(m_stream_id)
StNerfSync ==
    /\ fpc = "nerf_sync"
    /\ Synchronized(stream_q)
    /\ fpc' = "overlay"
    /\ UNCHANGED <<stream_q, m_show_nerf, frame_no, launched>>

\* line 406: m_raytracer.overlay launches the compositing of both buffers
StOverlay ==
    /\ fpc = "overlay"
    /\ Launch("overlay")
    /\ fpc' = "overlay_sync"
    /\ UNCHANGED <<m_show_nerf, frame_no>>

\* line 408: sync(m_stream_id)
StOverlaySync ==
    /\ fpc = "overlay_sync"
    /\ Synchronized(stream_q)
    /\ fpc' = "readback"
    /\ UNCHANGED <<stream_q, m_show_nerf, frame_no, launched>>

\* lines 416-419: load_gpu of the neural buffers and m_raytracer.load of the synthetic ones
StReadback ==
    /\ fpc = "readback"
    /\ fpc' = "present"
    /\ UNCHANGED <<stream_q, m_show_nerf, frame_no, launched>>

\* line 425 and Display::present: cudaDeviceSynchronize() (display.cu:271), the draw,
\* glFinish; then the output step returns and main_func's loop calls frame again
StPresent ==
    /\ fpc = "present"
    /\ Synchronized(stream_q)
    /\ \E go_on \in BOOLEAN :
        IF go_on /\ frame_no < MaxFrames
          THEN fpc' = "begin" /\ frame_no' = frame_no + 1
          ELSE fpc' = "exit" /\ frame_no' = frame_no
    /\ UNCHANGED <<stream_q, m_show_nerf, launched>>

(* ======================= main and the scene file ======================= *)

Absent == "absent"
\* the img_count of a scene file that has none
NoCount == -1

\* the scene files: end_on_loop of the camera section, the output section with its
\* folder (missing, "" or a directory), img_count and record, and the three lists
Configs ==
    {c \in [end_on_loop : BOOLEAN,
            output : BOOLEAN,
            folder : {Absent, "empty", "dir"},
            img_count : {NoCount} \cup (0 .. MaxImgCountMax),
            record : {Absent, "true", "false"},
            materials : BOOLEAN,
            objfile : BOOLEAN,
            lights : BOOLEAN] :
        ~c.output => (c.folder = Absent /\ c.img_count = NoCount /\ c.record = Absent)}

NoConfig ==
    [end_on_loop |-> FALSE, output |-> FALSE, folder |-> Absent, img_count |-> NoCount,
     record |-> Absent, materials |-> FALSE, objfile |-> FALSE, lights |-> FALSE]

\* a main that takes no part in a specification
MainIdle ==
    /\ config = NoConfig
    /\ mpc = "idle"
    /\ m_has_output = FALSE
    /\ log = <<>>

\* config[key] on the non-const json object: a missing key yields a null value, whose
\* size() is 0, so the loop over it builds an empty list; a list that is there has
\* one entry
ListOf(present) == IF present THEN <<NewEntity(0)>> ELSE <<>>

\* m_output_dest = output_conf["folder"]: the conversion of a null value throws
FolderThrows(c) == c.output /\ c.folder = Absent

\* max(1, m_camera_path.get_total_images()) for a scene file without a camera path
DefaultImgCountMax == 1

\* main_func line 187: engine.set_virtual_world(get(virtual_flag)); an exception
\* leaves main_func and is caught and logged by main (lines 251-254)
SetVirtualWorld ==
    /\ mpc = "load"
    /\ IF FolderThrows(config)
         THEN /\ mpc' = "fatal"
              /\ log' = Append(log, "Uncaught exception")
              /\ UNCHANGED <<engineVars, displayVars, m_has_output>>
         ELSE /\ m_end_on_loop' = config.end_on_loop
              /\ has_output_dest' = (config.output /\ config.folder = "dir")
              /\ m_img_count_max' =
                    IF ~config.output THEN m_img_count_max
                    ELSE IF config.img_count = NoCount THEN DefaultImgCountMax
                    ELSE config.img_count
              \* m_has_output is written here and read nowhere: has_output() is
              \* !m_output_dest.empty()
              /\ m_has_output' = IF config.record = Absent THEN m_has_output
                                 ELSE config.record = "true"
              /\ m_materials' = ListOf(config.materials)
              /\ m_objects' = ListOf(config.objfile)
              /\ m_lights' = ListOf(config.lights)
              /\ mpc' = "init"
              /\ UNCHANGED <<d_world, d_materials, d_lights, m_is_dirty, m_enable_animations,
                             m_syn_camera_reset, rt_spp, alive, running, fr>>
              /\ UNCHANGED <<m_img_count, m_is_init, files, ret, calls, log>>
    /\ UNCHANGED config

\* main_func lines 200-214: engine.init, whose init_window starts the image count at 0;
\* the render loop is entered
EngineInit ==
    /\ mpc = "init"
    /\ m_img_count' = 0
    /\ m_is_init' = TRUE
    /\ running' = TRUE
    /\ mpc' = "loop"
    /\ UNCHANGED <<sceneVars, m_is_dirty, m_enable_animations, m_end_on_loop,
                   has_output_dest, m_syn_camera_reset, rt_spp, alive, fr>>
    /\ UNCHANGED <<m_img_count_max, files, ret, calls>>
    /\ UNCHANGED <<config, m_has_output, log>>

\* main_func line 222: if (!go_next_frame) break; then return 0
MainLoopExit ==
    /\ mpc = "loop"
    /\ ~running
    /\ mpc' = "done"
    /\ UNCHANGED <<config, m_has_output, log>>
    /\ UNCHANGED <<engineVars, displayVars>>

(* ================= Display::present and the blit program ================ *)

\* coordinates and warp coefficients are fixed-point numbers: Den stands for 1.0
Den == 16
Coords == 0 .. Den

GL_NEAREST == "GL_NEAREST"
GL_LINEAR == "GL_LINEAR"
\* what the caller of present can pass to select the sampling of the synthetic buffer
FilterTypes == {GL_NEAREST, GL_LINEAR}
Samplers == {"syn_rgba", "syn_depth", "nerf_rgba", "nerf_depth"}
\* the widths of the square buffers and of the window
Resolutions == {64, 256, 512}

\* FoveationPiecewiseQuadratic as present is given it: the identity (middle segment
\* am = 1, bm = 0, switch points 0 and 1), a linear warp of slope 2, and a warp of
\* three segments: 2x^2 + x/4 up to 1/4, 5x/4 - 1/8 up to 3/4, -2x^2 + 17x/4 - 5/4 after
IdentityWarp ==
    [al |-> Den, bl |-> 0, cl |-> 0, am |-> Den, bm |-> 0, ar |-> Den, br |-> 0, cr |-> 0,
     switch_left |-> 0, switch_right |-> Den, inv_switch_left |-> 0, inv_switch_right |-> Den]
LinearWarp ==
    [al |-> Den, bl |-> 0, cl |-> 0, am |-> 2 * Den, bm |-> 0, ar |-> Den, br |-> 0, cr |-> 0,
     switch_left |-> 0, switch_right |-> Den, inv_switch_left |-> 0, inv_switch_right |-> Den]
ThreeSegmentWarp ==
    [al |-> 32, bl |-> 4, cl |-> 0, am |-> 20, bm |-> -2, ar |-> -32, br |-> 68, cr |-> -20,
     switch_left |-> 4, switch_right |-> 12, inv_switch_left |-> 3, inv_switch_right |-> 13]
\* the identity's middle segment and switch points, with other quadratic segments
IdentityLikeWarp ==
    [ThreeSegmentWarp EXCEPT !.am = Den, !.bm = 0, !.switch_left = 0, !.switch_right = Den,
                             !.inv_switch_left = 0, !.inv_switch_right = Den]
Warps == {IdentityWarp, IdentityLikeWarp, LinearWarp, ThreeSegmentWarp}

NoWarp == [al |-> 0, bl |-> 0, cl |-> 0, am |-> 0, bm |-> 0, ar |-> 0, br |-> 0, cr |-> 0,
           switch_left |-> 0, switch_right |-> 0, inv_switch_left |-> 0, inv_switch_right |-> 0]
NoResolution == [nerf |-> 0, syn |-> 0, full |-> 0]
NoFilters == [sm \in Samplers |-> "unset"]

\* a Display that presents nothing in a specification
PresentIdle ==
    /\ ppc = "idle"
    /\ filter_type = "unset"
    /\ tex_filter = NoFilters
    /\ warp_x = NoWarp
    /\ warp_y = NoWarp
    /\ resolution = NoResolution
    /\ UVs = <<0, 0>>
    /\ tex_coords = <<0, 0>>
    /\ frag_color = Uninit
    /\ gl_FragDepth = Uninit

\* sqrt on the fixed-point scale, rounded down
ISqrt(n) == CHOOSE r \in 0 .. 128 : r * r <= n /\ n < (r + 1) * (r + 1)

Clamp(y, lo, hi) == IF y < lo THEN lo ELSE IF y > hi THEN hi ELSE y

\* a quadratic segment of unwarp: (sqrt(-4ac + 4ay + b^2) - b) / (2a)
UnwarpQuadratic_otherRoot(a, b, c, y) ==
    ((0 - ISqrt(-4 * a * c + 4 * a * y + b * b) - b) * Den) \div (2 * a)
UnwarpQuadratic(a, b, c, y) ==
    ((ISqrt(-4 * a * c + 4 * a * y + b * b) - b) * Den) \div (2 * a)

\* float unwarp(in FoveationWarp warp, float y) of main.frag
Unwarp(warp, y0) ==
    LET y == Clamp(y0, 0, Den)
    IN  IF y < warp.inv_switch_left THEN UnwarpQuadratic(warp.al, warp.bl, warp.cl, y)
        ELSE IF y > warp.inv_switch_right THEN UnwarpQuadratic(warp.ar, warp.br, warp.cr, y)
        ELSE ((y - warp.bm) * Den) \div warp.am

\* vec2 unwarp(in vec2 pos)
Unwarp2(wx, wy, pos) == <<Unwarp(wx, pos[1]), Unwarp(wy, pos[2])>>

\* texture(sampler, coords): the value of the texture bound to the sampler at the
\* coordinates, under the filter the texture was bound with
Texture(sampler, coords) == [of |-> sampler, at |-> coords, filter |-> tex_filter[sampler]]

\* the texture parameters transfer_texture sets (display.cu:221-247)
TransferTextureFilters(rgba_filter_mode) ==
    [sm \in Samplers |->
        IF sm \in {"nerf_depth", "syn_rgba"} THEN rgba_filter_mode ELSE GL_NEAREST]

\* Display::present with its arguments; it calls transfer_texture with GL_LINEAR as
\* rgba_filter_mode, which returns at once when there is no blit program
Present(fov_x, fov_y, nerf_res, syn_res, window_res, ft, blit_program) ==
    /\ ppc = "call"
    /\ IF blit_program
         THEN /\ filter_type' = ft
              /\ tex_filter' = TransferTextureFilters(GL_LINEAR)
              /\ warp_x' = fov_x
              /\ warp_y' = fov_y
              /\ resolution' = [nerf |-> nerf_res, syn |-> syn_res, full |-> window_res]
              /\ ppc' = "bound"
         ELSE /\ filter_type' = ft
              /\ ppc' = "presented"
              /\ UNCHANGED <<tex_filter, warp_x, warp_y, resolution>>
    /\ UNCHANGED <<UVs, tex_coords, frag_color, gl_FragDepth>>

\* tex_coords.y = 1.0 - tex_coords.y
FlipY_none(uv) == uv
FlipY(uv) == <<uv[1], Den - uv[2]>>

\* the sample main() takes its color from
ColorSample_nerf(tc) == Texture("nerf_rgba", tc)
ColorSample(tc) == Texture("syn_rgba", tc)

\* void main() of main.frag for the fragment at uv, one of those glDrawArrays shades
FragmentMain(uv) ==
    /\ ppc = "bound"
    /\ UVs' = uv
    /\ \E tc \in {Unwarp2(warp_x, warp_y, FlipY(uv))} :
        /\ tex_coords' = tc
        /\ frag_color' = [rgb |-> ColorSample(tc), a |-> Unit]
        /\ gl_FragDepth' = [r |-> Texture("syn_depth", tc)]
    /\ ppc' = "shaded"
    /\ UNCHANGED <<filter_type, tex_filter, warp_x, warp_y, resolution>>

(* ========================== unwarp on its own ========================== *)

\* a warp of two segments in use: x^2 + x/4 up to 1/2, then 5x/4 - 1/4 up to 1
LeftSegmentWarp ==
    [al |-> 16, bl |-> 4, cl |-> 0, am |-> 20, bm |-> -4, ar |-> -32, br |-> 68, cr |-> -20,
     switch_left |-> 8, switch_right |-> Den, inv_switch_left |-> 6, inv_switch_right |-> Den]
\* the warps made of quadratic and linear segments that join with equal value and slope
SegmentedWarps == {ThreeSegmentWarp, LeftSegmentWarp}

\* unwarp takes no part in a specification
UnwarpIdle ==
    /\ uwpc = "idle"
    /\ uw_warp = NoWarp
    /\ uw_y = <<0, 0>>
    /\ uw_x = <<0, 0>>
    /\ uw_back = 0

\* FoveationPiecewiseQuadratic::warp, the forward map the shader's unwarp inverts:
\* a x^2 + b x + c on the outer segments, am x + bm between the switch points
Warp(warp, x0) ==
    LET x == Clamp(x0, 0, Den)
        quad(a, b, c) == (a * x * x + b * x * Den) \div (Den * Den) + c
    IN  IF x < warp.switch_left THEN quad(warp.al, warp.bl, warp.cl)
        ELSE IF x > warp.switch_right THEN quad(warp.ar, warp.br, warp.cr)
        ELSE (warp.am * x) \div Den + warp.bm

\* unwarp applied to both coordinates
ApplyUnwarp ==
    /\ uwpc = "in"
    /\ uw_x' = <<Unwarp(uw_warp, uw_y[1]), Unwarp(uw_warp, uw_y[2])>>
    /\ uwpc' = "unwarped"
    /\ UNCHANGED <<uw_warp, uw_y, uw_back>>

\* the forward warp applied to the first result
ApplyWarp ==
    /\ uwpc = "unwarped"
    /\ uw_back' = Warp(uw_warp, uw_x[1])
    /\ uwpc' = "back"
    /\ UNCHANGED <<uw_warp, uw_y, uw_x>>

(* ======================== SyntheticWorld::handle ======================= *)

\* the meshes of the objects: up to MaxObjTris triangles, all facing the light
ObjectMeshes == UNION {[1 .. len -> [t : T, n : {"n1"}]] : len \in 0 .. MaxObjTris}
ObjectMaps == UNION {[1 .. len -> ObjectMeshes] : len \in 0 .. MaxObjects}

\* a SyntheticWorld that takes no part in a specification
HandleIdle ==
    /\ hpc = "idle"
    /\ hw_objects = <<>>
    /\ hw_next = 0

\* the loop of gpu_draw_object (lines 129-135) from triangle i on, with the distance
\* and normal kept so far
RECURSIVE KernelFold(_, _, _)
KernelFold(tris, i, kept) ==
    IF i > Len(tris) THEN kept
    ELSE KernelFold(tris, i + 1,
                    IF Closer(tris[i].t, kept.dt)
                      THEN [dt |-> tris[i].t, normal |-> tris[i].n]
                      ELSE kept)

\* lines 38-51: the device's view is cleared (not the buffers draw_object_async
\* writes), the rays are generated, the stream is synchronized
HandleBegin ==
    /\ hpc = "call"
    /\ hpc' = "loop"
    /\ hw_next' = 1
    /\ UNCHANGED <<hw_objects, kernelVars>>

\* draw_object_async for the next object of the loop (lines 52-55): one launch of
\* gpu_draw_object over the object's own triangles, run to its end by the
\* cudaStreamSynchronize of line 115; the thread of the pixel writes rgba[i] and depth[i]
HandleDraw ==
    /\ hpc = "loop"
    /\ hw_next <= Len(hw_objects)
    /\ \E r \in {KernelFold(hw_objects[hw_next], 1, [dt |-> MAX_RT_DIST, normal |-> Uninit])} :
        /\ triangles' = hw_objects[hw_next]
        /\ k' = Len(hw_objects[hw_next]) + 1
        /\ dt' = r.dt
        /\ normal' = r.normal
        /\ depth' = MAX_RT_DIST
        /\ rgba' = IF r.dt < MAX_RT_DIST
                      THEN Vec4(Scaled(Ndotv(sun_dot[r.normal]), DiffuseColor), Unit)
                      ELSE Vec4(Black, Unit)
    /\ kpc' = "done"
    /\ hw_next' = hw_next + 1
    /\ UNCHANGED <<hpc, hw_objects, sun_dot, clear_color>>

\* line 83: return true
HandleReturn ==
    /\ hpc = "loop"
    /\ hw_next > Len(hw_objects)
    /\ hpc' = "returned"
    /\ UNCHANGED <<hw_objects, hw_next, kernelVars>>

(* ====================== Display::transfer_texture ====================== *)

DepthFuncs == {"GL_LESS", "GL_ALWAYS", "GL_LEQUAL"}
GlStates == [tex2d : BOOLEAN, depth_test : BOOLEAN, cull_face : BOOLEAN,
             depth_func : DepthFuncs, depth_mask : BOOLEAN]
NoGl == [tex2d |-> FALSE, depth_test |-> FALSE, cull_face |-> FALSE,
         depth_func |-> "GL_LESS", depth_mask |-> TRUE]
NoSaved == [tex |-> FALSE, depth |-> FALSE, cull |-> FALSE]

\* an OpenGL context that takes no part in a specification
GlIdle ==
    /\ tpc = "idle"
    /\ gl = NoGl
    /\ tt_saved = NoSaved
    /\ tt_entry = NoGl
    /\ tt_blit_program = 0

\* lines 155-157: nothing is done without a blit program
TtNoProgram ==
    /\ tpc = "call"
    /\ tt_blit_program = 0
    /\ tpc' = "returned"
    /\ UNCHANGED <<gl, tt_saved, tt_entry, tt_blit_program>>

\* lines 159-161: the three glIsEnabled queries
TtSave ==
    /\ tpc = "call"
    /\ tt_blit_program # 0
    /\ tt_saved' = [tex |-> gl.tex2d, depth |-> gl.depth_test, cull |-> gl.cull_face]
    /\ tpc' = "saved"
    /\ UNCHANGED <<gl, tt_entry, tt_blit_program>>

\* lines 163-171: texturing and depth test on, culling off, depth always written
TtEnable ==
    /\ tpc = "saved"
    /\ gl' = [tex2d |-> IF ~tt_saved.tex THEN TRUE ELSE gl.tex2d,
              depth_test |-> IF ~tt_saved.depth THEN TRUE ELSE gl.depth_test,
              cull_face |-> IF tt_saved.cull THEN FALSE ELSE gl.cull_face,
              depth_func |-> "GL_ALWAYS",
              depth_mask |-> TRUE]
    /\ tpc' = "draw"
    /\ UNCHANGED <<tt_saved, tt_entry, tt_blit_program>>

\* lines 173-255: the uniforms, the texture bindings and glDrawArrays; none of them
\* touches an enable flag, the depth function or the depth mask
TtDraw ==
    /\ tpc = "draw"
    /\ tpc' = "restore"
    /\ UNCHANGED <<gl, tt_saved, tt_entry, tt_blit_program>>

\* lines 260-262: what the three conditional calls leave enabled
RestoreCull_never(cull, now) == now
RestoreCull(cull, now) == IF cull THEN TRUE ELSE now
RestoreOff(was, now) == IF ~was THEN FALSE ELSE now

\* lines 257-263: glDepthFunc(GL_LESS) and the restoring of the three flags
TtRestore ==
    /\ tpc = "restore"
    /\ gl' = [tex2d |-> RestoreOff(tt_saved.tex, gl.tex2d),
              depth_test |-> RestoreOff(tt_saved.depth, gl.depth_test),
              cull_face |-> RestoreCull(tt_saved.cull, gl.cull_face),
              depth_func |-> "GL_LESS",
              depth_mask |-> gl.depth_mask]
    /\ tpc' = "returned"
    /\ UNCHANGED <<tt_saved, tt_entry, tt_blit_program>>

(* ==================== SyntheticWorld::create_object ==================== *)

\* the file names of the paths that are loaded; one of them looks like a renamed other
FileNames == {"a.obj", "b.obj", "a.obj 1"}
NoObjects == [nm \in {} |-> 0]

\* a world no object is created in
WorldIdle ==
    /\ cpc = "idle"
    /\ w_objects = NoObjects
    /\ w_loads = <<>>
    /\ c_file = ""
    /\ c_k = 0
    /\ c_name = ""

\* line 92: fp.filename().string() + " " + std::to_string(k)
Renamed(file, n) == file \o " " \o ToString(n)

\* line 90: m_objects.count(name)
Count_never(objs, nm) == FALSE
Count(objs, nm) == nm \in DOMAIN objs

\* line 94: insert adds the pair unless the key is present
Insert(objs, nm, obj) ==
    [key \in DOMAIN objs \cup {nm} |-> IF key \in DOMAIN objs THEN objs[key] ELSE obj]

\* lines 87-89: k = 0 and the name is the file name of the path
CreateObjectBegin(filename) ==
    /\ cpc = "idle"
    /\ Len(w_loads) < MaxCreates
    /\ c_file' = filename
    /\ c_k' = 0
    /\ c_name' = filename
    /\ cpc' = "while"
    /\ UNCHANGED <<w_objects, w_loads>>

\* lines 90-93: one turn of the renaming loop
CreateObjectRename ==
    /\ cpc = "while"
    /\ Count(w_objects, c_name)
    /\ c_k' = c_k + 1
    /\ c_name' = Renamed(c_file, c_k + 1)
    /\ UNCHANGED <<cpc, w_objects, w_loads, c_file>>

\* line 94: the object is loaded and inserted under the name
CreateObjectInsert ==
    /\ cpc = "while"
    /\ ~Count(w_objects, c_name)
    /\ w_objects' = Insert(w_objects, c_name, Len(w_loads) + 1)
    /\ w_loads' = Append(w_loads, [file |-> c_file, name |-> c_name])
    /\ cpc' = "idle"
    /\ UNCHANGED <<c_file, c_k, c_name>>

(* ============== Display::init_window and Display::destroy ============== *)

\* two Display instances of one process
Displays == {1, 2}
NoWindow == 0

\* the state before any Display made a window (display.cu:16, display.h:89)
NoDisplayCalls ==
    /\ is_init_static = FALSE
    /\ d_glfw_window = [d \in Displays |-> NoWindow]
    /\ d_completed = [d \in Displays |-> FALSE]
    /\ glfw_windows = {}
    /\ window_calls = 0
    /\ init_window_ret = NoWindow
    /\ teardowns = <<>>

WindowIdle == NoDisplayCalls

\* init_window (lines 22-31) on Display d: nothing when the static flag is set, else
\* init_glfw makes a new window (lines 33-69) and the flag is set
InitWindow(d) ==
    /\ window_calls < MaxWindowCalls
    /\ window_calls' = window_calls + 1
    /\ IF is_init_static
         THEN /\ init_window_ret' = NoWindow
              /\ UNCHANGED <<is_init_static, d_glfw_window, d_completed, glfw_windows>>
         ELSE /\ d_glfw_window' = [d_glfw_window EXCEPT ![d] = window_calls + 1]
              /\ glfw_windows' = glfw_windows \cup {window_calls + 1}
              /\ is_init_static' = TRUE
              /\ d_completed' = [d_completed EXCEPT ![d] = TRUE]
              /\ init_window_ret' = window_calls + 1
    /\ UNCHANGED teardowns

\* destroy (lines 328-341) on Display d, called directly or by ~Display (display.h:72):
\* nothing when the static flag is clear; else ImGui is shut down,
\* glfwDestroyWindow(m_glfw_window) and glfwTerminate, which destroys every window left
Destroy(d) ==
    /\ window_calls < MaxWindowCalls
    /\ window_calls' = window_calls + 1
    /\ IF ~is_init_static
         THEN UNCHANGED <<is_init_static, d_glfw_window, d_completed, glfw_windows, teardowns>>
         ELSE /\ teardowns' = Append(teardowns, [by |-> d,
                                                 completed |-> d_completed[d],
                                                 own |-> d_glfw_window[d],
                                                 destroyed |-> glfw_windows])
              /\ glfw_windows' = {}
              /\ d_glfw_window' = [d_glfw_window EXCEPT ![d] = NoWindow]
              /\ d_completed' = [d_completed EXCEPT ![d] = FALSE]
              /\ is_init_static' = FALSE
    /\ UNCHANGED init_window_ret

(* ============================ Engine::imgui ============================ *)

WorldObjectTypes == {"None", "LightObj", "VirtualObjectObj"}
\* m_transform_idx is a uint32_t written through an int*: a negative int reads back as a
\* number above 2^31, which stands here as the largest integer there is
HugeIdx == 2147483647
AsUInt32(v) == IF v < 0 THEN HugeIdx ELSE v

\* a pointer is the list and index of the element it was taken from; nullptr has no list
Nullptr == [list |-> "null", idx |-> 0]
ElementOf(list, idx) == [list |-> list, idx |-> idx]

\* the members as the class initialises them
ImguiIdle ==
    /\ m_transform_type = "None"
    /\ m_transform_idx = 0
    /\ lights_size = 0
    /\ objects_size = 0
    /\ m_pos_to_translate = Nullptr
    /\ m_rot_to_rotate = Nullptr
    /\ m_scale_to_scale = Nullptr
    /\ m_obj_dirty_marker = Nullptr
    /\ imgui_called = FALSE

\* lines 294-304: max_count, an int
MaxCount(type) ==
    CASE type = "LightObj" -> lights_size - 1
      [] type = "VirtualObjectObj" -> objects_size - 1
      [] OTHER -> 0

\* line 305: the values ImGui::SliderInt can write through the pointer. No
\* ImGuiSliderFlags_AlwaysClamp is passed, so dragging gives a value between the two
\* ends of the range and a number typed after CTRL+Click is stored as it is.
SliderInt(v_min, v_max) ==
    (IF v_min <= v_max THEN v_min .. v_max ELSE v_max .. v_min) \cup (0 .. MaxTyped)

\* lines 334-349: the edit targets for the selection
EditTargets(type, idx) ==
    IF type = "LightObj" /\ lights_size # 0
      THEN [pos |-> ElementOf("lights", idx), rot |-> Nullptr, scale |-> Nullptr,
            dirty |-> ElementOf("lights", idx)]
    ELSE IF type = "VirtualObjectObj" /\ objects_size # 0
      THEN [pos |-> ElementOf("objects", idx), rot |-> ElementOf("objects", idx),
            scale |-> ElementOf("objects", idx), dirty |-> ElementOf("objects", idx)]
    ELSE [pos |-> Nullptr, rot |-> Nullptr, scale |-> Nullptr, dirty |-> Nullptr]

\* Engine::imgui (lines 257-350). open: the window is shown and its Transform header
\* is open; mode: what the Combo leaves selected; moved and v: whether the slider
\* writes, and what
Imgui(open, mode, moved, v) ==
    /\ \E type \in {IF open THEN mode ELSE m_transform_type} :
       \E idx0 \in {IF open /\ mode # m_transform_type THEN 0 ELSE m_transform_idx} :
       \E idx \in {IF open /\ moved THEN AsUInt32(v) ELSE idx0} :
        /\ open /\ moved => v \in SliderInt(0, MaxCount(type))
        /\ m_transform_type' = type
        /\ m_transform_idx' = idx
        /\ m_pos_to_translate' = EditTargets(type, idx).pos
        /\ m_rot_to_rotate' = EditTargets(type, idx).rot
        /\ m_scale_to_scale' = EditTargets(type, idx).scale
        /\ m_obj_dirty_marker' = EditTargets(type, idx).dirty
    /\ imgui_called' = TRUE
    /\ UNCHANGED <<lights_size, objects_size>>

(* =========================== specifications ============================ *)

InitDisplay ==
    /\ DisplayAfterInitWindow
    /\ m_img_count_max \in 0 .. MaxImgCountMax
    /\ KernelIdle
    /\ EngineIdle
    /\ SyncIdle
    /\ MainIdle
    /\ PresentIdle
    /\ UnwarpIdle
    /\ HandleIdle
    /\ GlIdle
    /\ WorldIdle
    /\ WindowIdle
    /\ ImguiIdle

NextDisplay ==
    \/ (\E write_ok \in BOOLEAN : save_image(write_ok)) /\ UNCHANGED <<kernelVars, engineVars, syncVars, mainVars, presentVars, unwarpVars, handleVars, glVars, worldVars, windowVars, imguiVars>>
    \/ advance_image_count /\ UNCHANGED <<kernelVars, engineVars, syncVars, mainVars, presentVars, unwarpVars, handleVars, glVars, worldVars, windowVars, imguiVars>>

SpecDisplay == InitDisplay /\ [][NextDisplay]_vars

InitKernel ==
    /\ KernelInputs
    /\ DisplayIdle
    /\ EngineIdle
    /\ SyncIdle
    /\ MainIdle
    /\ PresentIdle
    /\ UnwarpIdle
    /\ HandleIdle
    /\ GlIdle
    /\ WorldIdle
    /\ WindowIdle
    /\ ImguiIdle

NextKernel ==
    \/ KernelBegin /\ UNCHANGED <<displayVars, engineVars, syncVars, mainVars, presentVars, unwarpVars, handleVars, glVars, worldVars, windowVars, imguiVars>>
    \/ KernelLoop /\ UNCHANGED <<displayVars, engineVars, syncVars, mainVars, presentVars, unwarpVars, handleVars, glVars, worldVars, windowVars, imguiVars>>
    \/ KernelShade /\ UNCHANGED <<displayVars, engineVars, syncVars, mainVars, presentVars, unwarpVars, handleVars, glVars, worldVars, windowVars, imguiVars>>

SpecKernel == InitKernel /\ [][NextKernel]_vars

\* the interactive configuration (no output section, end_on_loop unset) on every scene
InitInteractive ==
    /\ InitEngine(Scenes(MaxEntities))
    /\ m_end_on_loop = FALSE
    /\ has_output_dest = FALSE
    /\ DisplayIdle

\* the configurations that count frames (an output folder, end_on_loop or both), on
\* the empty scene
InitCounting ==
    /\ InitEngine(Scenes(0))
    /\ m_end_on_loop \in BOOLEAN
    /\ has_output_dest \in BOOLEAN
    /\ m_end_on_loop \/ has_output_dest
    /\ DisplayAfterInitWindow
    /\ m_img_count_max \in 0 .. MaxImgCountMax

Init ==
    /\ InitInteractive \/ InitCounting
    /\ KernelIdle
    /\ SyncIdle
    /\ MainIdle
    /\ PresentIdle
    /\ UnwarpIdle
    /\ HandleIdle
    /\ GlIdle
    /\ WorldIdle
    /\ WindowIdle
    /\ ImguiIdle

Next ==
    \/ FrameDead /\ UNCHANGED <<kernelVars, syncVars, mainVars, presentVars, unwarpVars, handleVars, glVars, worldVars, windowVars, imguiVars>>
    \/ FrameQuit /\ UNCHANGED <<kernelVars, syncVars, mainVars, presentVars, unwarpVars, handleVars, glVars, worldVars, windowVars, imguiVars>>
    \/ \E cam, close_cb, write_ok \in BOOLEAN, ev \in UiEvents,
          eo \in SUBSET DOMAIN m_objects, em \in SUBSET DOMAIN m_materials,
          el \in SUBSET DOMAIN m_lights :
            /\ FrameInputs(ev, eo, em, el, write_ok)
            /\ FrameRender(ev, cam, close_cb, eo, em, el, write_ok)
            /\ UNCHANGED <<kernelVars, syncVars, mainVars, presentVars, unwarpVars, handleVars, glVars, worldVars, windowVars, imguiVars>>

Spec == Init /\ [][Next]_vars

\* the first frame about to begin: init has launched nothing on the stream
InitSync ==
    /\ fpc = "begin"
    /\ stream_q = <<>>
    /\ m_show_nerf \in BOOLEAN
    /\ frame_no = 1
    /\ launched = {}
    /\ DisplayIdle
    /\ KernelIdle
    /\ EngineIdle
    /\ MainIdle
    /\ PresentIdle
    /\ UnwarpIdle
    /\ HandleIdle
    /\ GlIdle
    /\ WorldIdle
    /\ WindowIdle
    /\ ImguiIdle

NextSync ==
    \/ KernelCompletes /\ UNCHANGED <<displayVars, kernelVars, engineVars, mainVars, presentVars, unwarpVars, handleVars, glVars, worldVars, windowVars, imguiVars>>
    \/ StBegin /\ UNCHANGED <<displayVars, kernelVars, engineVars, mainVars, presentVars, unwarpVars, handleVars, glVars, worldVars, windowVars, imguiVars>>
    \/ StResize /\ UNCHANGED <<displayVars, kernelVars, engineVars, mainVars, presentVars, unwarpVars, handleVars, glVars, worldVars, windowVars, imguiVars>>
    \/ StResizeSync /\ UNCHANGED <<displayVars, kernelVars, engineVars, mainVars, presentVars, unwarpVars, handleVars, glVars, worldVars, windowVars, imguiVars>>
    \/ StSyncInput /\ UNCHANGED <<displayVars, kernelVars, engineVars, mainVars, presentVars, unwarpVars, handleVars, glVars, worldVars, windowVars, imguiVars>>
    \/ StUpload /\ UNCHANGED <<displayVars, kernelVars, engineVars, mainVars, presentVars, unwarpVars, handleVars, glVars, worldVars, windowVars, imguiVars>>
    \/ StRender /\ UNCHANGED <<displayVars, kernelVars, engineVars, mainVars, presentVars, unwarpVars, handleVars, glVars, worldVars, windowVars, imguiVars>>
    \/ StNerf /\ UNCHANGED <<displayVars, kernelVars, engineVars, mainVars, presentVars, unwarpVars, handleVars, glVars, worldVars, windowVars, imguiVars>>
    \/ StNerfSync /\ UNCHANGED <<displayVars, kernelVars, engineVars, mainVars, presentVars, unwarpVars, handleVars, glVars, worldVars, windowVars, imguiVars>>
    \/ StOverlay /\ UNCHANGED <<displayVars, kernelVars, engineVars, mainVars, presentVars, unwarpVars, handleVars, glVars, worldVars, windowVars, imguiVars>>
    \/ StOverlaySync /\ UNCHANGED <<displayVars, kernelVars, engineVars, mainVars, presentVars, unwarpVars, handleVars, glVars, worldVars, windowVars, imguiVars>>
    \/ StReadback /\ UNCHANGED <<displayVars, kernelVars, engineVars, mainVars, presentVars, unwarpVars, handleVars, glVars, worldVars, windowVars, imguiVars>>
    \/ StPresent /\ UNCHANGED <<displayVars, kernelVars, engineVars, mainVars, presentVars, unwarpVars, handleVars, glVars, worldVars, windowVars, imguiVars>>

SpecSync == InitSync /\ [][NextSync]_vars

\* main_func about to load a scene file; m_img_count_max is not set by any
\* constructor at hand, so it starts with any value
InitMain ==
    /\ config \in Configs
    /\ mpc = "load"
    /\ m_has_output = FALSE
    /\ log = <<>>
    /\ DisplayAfterInitWindow
    /\ m_img_count_max \in 0 .. MaxImgCountMax
    /\ EngineIdle
    /\ KernelIdle
    /\ SyncIdle
    /\ PresentIdle
    /\ UnwarpIdle
    /\ HandleIdle
    /\ GlIdle
    /\ WorldIdle
    /\ WindowIdle
    /\ ImguiIdle

\* the frames of the loop run without UI events, edits or camera moves
NextMain ==
    \/ SetVirtualWorld /\ UNCHANGED <<kernelVars, syncVars, presentVars, unwarpVars, handleVars, glVars, worldVars, windowVars, imguiVars>>
    \/ EngineInit /\ UNCHANGED <<kernelVars, syncVars, presentVars, unwarpVars, handleVars, glVars, worldVars, windowVars, imguiVars>>
    \/ mpc = "loop" /\ FrameDead /\ UNCHANGED <<kernelVars, syncVars, mainVars, presentVars, unwarpVars, handleVars, glVars, worldVars, windowVars, imguiVars>>
    \/ mpc = "loop" /\ FrameQuit /\ UNCHANGED <<kernelVars, syncVars, mainVars, presentVars, unwarpVars, handleVars, glVars, worldVars, windowVars, imguiVars>>
    \/ \E close_cb, write_ok \in BOOLEAN :
            /\ mpc = "loop"
            /\ FrameInputs("none", {}, {}, {}, write_ok)
            /\ FrameRender("none", FALSE, close_cb, {}, {}, {}, write_ok)
            /\ UNCHANGED <<kernelVars, syncVars, mainVars, presentVars, unwarpVars, handleVars, glVars, worldVars, windowVars, imguiVars>>
    \/ MainLoopExit /\ UNCHANGED <<kernelVars, syncVars, presentVars, unwarpVars, handleVars, glVars, worldVars, windowVars, imguiVars>>

SpecMain == InitMain /\ [][NextMain]_vars

\* main_func is one thread and every call it makes returns (each GPU wait is for work
\* already launched), so it always takes its next step
SpecMainFair == InitMain /\ [][NextMain]_vars /\ WF_vars(NextMain)

\* Engine::frame about to call present
InitPresent ==
    /\ ppc = "call"
    /\ filter_type = "unset"
    /\ tex_filter = NoFilters
    /\ warp_x = NoWarp
    /\ warp_y = NoWarp
    /\ resolution = NoResolution
    /\ UVs = <<0, 0>>
    /\ tex_coords = <<0, 0>>
    /\ frag_color = Uninit
    /\ gl_FragDepth = Uninit
    /\ DisplayIdle
    /\ KernelIdle
    /\ EngineIdle
    /\ SyncIdle
    /\ MainIdle
    /\ UnwarpIdle
    /\ HandleIdle
    /\ GlIdle
    /\ WorldIdle
    /\ WindowIdle
    /\ ImguiIdle

NextPresent ==
    \/ /\ ppc = "call"
       /\ \E fov_x, fov_y \in Warps, nerf_res, syn_res, window_res \in Resolutions,
             ft \in FilterTypes, blit_program \in BOOLEAN :
               Present(fov_x, fov_y, nerf_res, syn_res, window_res, ft, blit_program)
       /\ UNCHANGED <<displayVars, kernelVars, engineVars, syncVars, mainVars, unwarpVars, handleVars, glVars, worldVars, windowVars, imguiVars>>
    \/ /\ ppc = "bound"
       /\ \E uv \in Coords \X Coords : FragmentMain(uv)
       /\ UNCHANGED <<displayVars, kernelVars, engineVars, syncVars, mainVars, unwarpVars, handleVars, glVars, worldVars, windowVars, imguiVars>>

SpecPresent == InitPresent /\ [][NextPresent]_vars

\* a segmented warp and two coordinates of [0,1] in order
InitUnwarp ==
    /\ uwpc = "in"
    /\ uw_warp \in SegmentedWarps
    /\ uw_y \in {yy \in Coords \X Coords : yy[1] <= yy[2]}
    /\ uw_x = <<0, 0>>
    /\ uw_back = 0
    /\ DisplayIdle
    /\ KernelIdle
    /\ EngineIdle
    /\ SyncIdle
    /\ MainIdle
    /\ PresentIdle
    /\ HandleIdle
    /\ GlIdle
    /\ WorldIdle
    /\ WindowIdle
    /\ ImguiIdle

NextUnwarp ==
    \/ ApplyUnwarp /\ UNCHANGED <<displayVars, kernelVars, engineVars, syncVars, mainVars, presentVars, handleVars, glVars, worldVars, windowVars, imguiVars>>
    \/ ApplyWarp /\ UNCHANGED <<displayVars, kernelVars, engineVars, syncVars, mainVars, presentVars, handleVars, glVars, worldVars, windowVars, imguiVars>>

SpecUnwarp == InitUnwarp /\ [][NextUnwarp]_vars

\* a world of objects about to be handled, lit from the front, its buffers not yet written
InitHandle ==
    /\ hpc = "call"
    /\ hw_objects \in ObjectMaps
    /\ hw_next = 0
    /\ triangles = <<>>
    /\ sun_dot = [nm \in Normals |-> 1]
    /\ clear_color = Black
    /\ kpc = "idle"
    /\ k = 0
    /\ dt = 0
    /\ normal = Uninit
    /\ rgba = Uninit
    /\ depth = Uninit
    /\ DisplayIdle
    /\ EngineIdle
    /\ SyncIdle
    /\ MainIdle
    /\ PresentIdle
    /\ UnwarpIdle
    /\ GlIdle
    /\ WorldIdle
    /\ WindowIdle
    /\ ImguiIdle

NextHandle ==
    \/ HandleBegin /\ UNCHANGED <<displayVars, engineVars, syncVars, mainVars, presentVars, unwarpVars, glVars, worldVars, windowVars, imguiVars>>
    \/ HandleDraw /\ UNCHANGED <<displayVars, engineVars, syncVars, mainVars, presentVars, unwarpVars, glVars, worldVars, windowVars, imguiVars>>
    \/ HandleReturn /\ UNCHANGED <<displayVars, engineVars, syncVars, mainVars, presentVars, unwarpVars, glVars, worldVars, windowVars, imguiVars>>

SpecHandle == InitHandle /\ [][NextHandle]_vars

\* transfer_texture is called in any OpenGL state, with or without a blit program
InitGl ==
    /\ tpc = "call"
    /\ gl \in GlStates
    /\ tt_saved = NoSaved
    /\ tt_entry = gl
    /\ tt_blit_program \in {0, 1}
    /\ DisplayIdle
    /\ KernelIdle
    /\ EngineIdle
    /\ SyncIdle
    /\ MainIdle
    /\ PresentIdle
    /\ UnwarpIdle
    /\ HandleIdle
    /\ WorldIdle
    /\ WindowIdle
    /\ ImguiIdle

NextGl ==
    \/ TtNoProgram /\ UNCHANGED <<displayVars, kernelVars, engineVars, syncVars, mainVars, presentVars, unwarpVars, handleVars, worldVars, windowVars, imguiVars>>
    \/ TtSave /\ UNCHANGED <<displayVars, kernelVars, engineVars, syncVars, mainVars, presentVars, unwarpVars, handleVars, worldVars, windowVars, imguiVars>>
    \/ TtEnable /\ UNCHANGED <<displayVars, kernelVars, engineVars, syncVars, mainVars, presentVars, unwarpVars, handleVars, worldVars, windowVars, imguiVars>>
    \/ TtDraw /\ UNCHANGED <<displayVars, kernelVars, engineVars, syncVars, mainVars, presentVars, unwarpVars, handleVars, worldVars, windowVars, imguiVars>>
    \/ TtRestore /\ UNCHANGED <<displayVars, kernelVars, engineVars, syncVars, mainVars, presentVars, unwarpVars, handleVars, worldVars, windowVars, imguiVars>>

SpecGl == InitGl /\ [][NextGl]_vars

\* a world without objects
InitWorld ==
    /\ WorldIdle
    /\ WindowIdle
    /\ ImguiIdle
    /\ DisplayIdle
    /\ KernelIdle
    /\ EngineIdle
    /\ SyncIdle
    /\ MainIdle
    /\ PresentIdle
    /\ UnwarpIdle
    /\ HandleIdle
    /\ GlIdle
    /\ WindowIdle
    /\ ImguiIdle

NextWorld ==
    \/ \E filename \in FileNames :
         CreateObjectBegin(filename) /\ UNCHANGED <<displayVars, kernelVars, engineVars, syncVars, mainVars, presentVars, unwarpVars, handleVars, glVars, windowVars, imguiVars>>
    \/ CreateObjectRename /\ UNCHANGED <<displayVars, kernelVars, engineVars, syncVars, mainVars, presentVars, unwarpVars, handleVars, glVars, windowVars, imguiVars>>
    \/ CreateObjectInsert /\ UNCHANGED <<displayVars, kernelVars, engineVars, syncVars, mainVars, presentVars, unwarpVars, handleVars, glVars, windowVars, imguiVars>>

SpecWorld == InitWorld /\ [][NextWorld]_vars

\* two Display instances, no window yet
InitWindows ==
    /\ NoDisplayCalls
    /\ DisplayIdle
    /\ KernelIdle
    /\ EngineIdle
    /\ SyncIdle
    /\ MainIdle
    /\ PresentIdle
    /\ UnwarpIdle
    /\ HandleIdle
    /\ GlIdle
    /\ WorldIdle
    /\ ImguiIdle

NextWindows ==
    \/ \E d \in Displays :
         InitWindow(d) /\ UNCHANGED <<displayVars, kernelVars, engineVars, syncVars, mainVars, presentVars, unwarpVars, handleVars, glVars, worldVars, imguiVars>>
    \/ \E d \in Displays :
         Destroy(d) /\ UNCHANGED <<displayVars, kernelVars, engineVars, syncVars, mainVars, presentVars, unwarpVars, handleVars, glVars, worldVars, imguiVars>>

SpecWindows == InitWindows /\ [][NextWindows]_vars

\* after Engine::init: the lists are loaded, show_light_pos may have selected the lights
InitImgui ==
    /\ m_transform_type \in {"None", "LightObj"}
    /\ m_transform_idx = 0
    /\ lights_size \in 0 .. MaxEntities
    /\ objects_size \in 0 .. MaxEntities
    /\ m_pos_to_translate = Nullptr
    /\ m_rot_to_rotate = Nullptr
    /\ m_scale_to_scale = Nullptr
    /\ m_obj_dirty_marker = Nullptr
    /\ imgui_called = FALSE
    /\ DisplayIdle
    /\ KernelIdle
    /\ EngineIdle
    /\ SyncIdle
    /\ MainIdle
    /\ PresentIdle
    /\ UnwarpIdle
    /\ HandleIdle
    /\ GlIdle
    /\ WorldIdle
    /\ WindowIdle

NextImgui ==
    \E open \in BOOLEAN, mode \in WorldObjectTypes, moved \in BOOLEAN, v \in -1 .. MaxTyped :
        Imgui(open, mode, moved, v) /\ UNCHANGED <<displayVars, kernelVars, engineVars, syncVars, mainVars, presentVars, unwarpVars, handleVars, glVars, worldVars, windowVars>>

SpecImgui == InitImgui /\ [][NextImgui]_vars

(* =============================== claims ================================ *)

\* the files save_image wrote successfully
WrittenFiles == SelectSeq(files, LAMBDA f : f.ok)

\* C1: from an image count of 0, over calls of advance_image_count alone, the n-th call
\* returns true exactly when n <= img_count_max (so call img_count_max + 1 returns false)
C1_AdvanceStopsAtMax ==
    (calls.save = 0 /\ calls.adv > 0) => (ret = (calls.adv <= m_img_count_max))

\* C1 witness: img_count_max = 3 and the 4th call has returned false
C1_FourthCallFalse ==
    /\ calls.save = 0
    /\ calls.adv = 4
    /\ m_img_count_max = 3
    /\ ret = FALSE

\* C2 as claimed: over calls of save_image alone (img_count_max at least 1) the files
\* are numbered 1, 2, ... and at most img_count_max files are ever written
C2_FilesBoundedByMax ==
    (calls.adv = 0 /\ m_img_count_max >= 1) =>
        /\ \A i \in DOMAIN files : files[i].n = i
        /\ Len(WrittenFiles) <= m_img_count_max

QuietEntities(f) ==
    /\ f.dirty.objects = {}
    /\ f.dirty.materials = {}
    /\ f.dirty.lights = {}

NoUpload ==
    /\ fr'.uploaded = {}
    /\ d_world' = d_world
    /\ d_materials' = d_materials
    /\ d_lights' = d_lights

\* C3 as claimed: a frame (after an earlier one, in a scene with objects) that finds no
\* dirty flag set uploads nothing and leaves d_world, d_materials and d_lights as they were
C3_NoDirtyNoUpload ==
    [][(/\ fr.kind = "full"
        /\ m_objects # <<>>
        /\ fr'.kind = "full"
        /\ QuietEntities(fr')) => NoUpload]_vars

\* C3 as amended: a frame that finds no dirty flag set, with animations disabled,
\* uploads nothing and leaves d_world, d_materials and d_lights as they were
C3_NoDirtyNoAnimationNoUpload ==
    [][(fr'.kind = "full" /\ QuietEntities(fr') /\ ~m_enable_animations) => NoUpload]_vars

\* C3 witness: a later frame found nothing dirty, animations are off, nothing was
\* uploaded and the arrays filled by an earlier frame are still there
C3_QuietFrameKeepsArrays ==
    /\ fr.kind = "full"
    /\ ~fr.first
    /\ QuietEntities(fr)
    /\ ~m_enable_animations
    /\ fr.uploaded = {}
    /\ d_world # <<>>
    /\ d_materials # <<>>
    /\ d_lights # <<>>

\* C4 as claimed: a frame after the first with no dirty entity, no camera move and no
\* UI event (animations disabled) does not reset accumulation in update_world_objects
C4_QuietFrameNoReset ==
    (/\ fr.kind = "full"
     /\ ~fr.first
     /\ QuietEntities(fr)
     /\ ~fr.camera
     /\ fr.event = "none"
     /\ ~m_enable_animations) => ~fr.update_reset

OneDirty(f) ==
    Cardinality(f.dirty.objects) + Cardinality(f.dirty.materials)
        + Cardinality(f.dirty.lights) = 1

\* C5 as claimed: the frame that finds a single entity marked dirty resets accumulation,
\* and the frame after it, in which nothing is marked and nothing else changed, does not
C5_OneResetPerMark ==
    [][(/\ fr.kind = "full"
        /\ ~fr.first
        /\ OneDirty(fr)
        /\ fr'.kind = "full"
        /\ QuietEntities(fr')
        /\ ~fr'.camera
        /\ fr'.event = "none"
        /\ ~m_enable_animations) => (fr.update_reset /\ ~fr'.update_reset)]_vars

C7_GpuMirrorsCpu ==
    fr.kind = "full" =>
        /\ d_world = HWorld(m_objects)
        /\ d_materials = m_materials
        /\ d_lights = m_lights

\* C7 witness: a later frame edited the first of two objects only, and d_world holds
\* the transforms of both
C7_OneOfTwoEdited ==
    /\ fr.kind = "full"
    /\ ~fr.first
    /\ Len(m_objects) = 2
    /\ fr.dirty.objects = {1}
    /\ d_world = HWorld(m_objects)

QualityEvents == {"shadow", "blur"}

\* C8: a frame in which an entity was found dirty, the camera moved or a quality
\* slider changed resets the raytracer's accumulation, and leaves m_syn_camera_reset clear
C8_ResetOnChange ==
    (/\ fr.kind = "full"
     /\ \/ ~QuietEntities(fr)
        \/ fr.camera
        \/ fr.event \in QualityEvents) => (fr.rt_resets >= 1 /\ ~m_syn_camera_reset)

\* C8 witness: a later frame whose only change is a blur or variance slider, and
\* accumulation was reset in it
C8_BlurSliderResets ==
    /\ fr.kind = "full"
    /\ ~fr.first
    /\ fr.event = "blur"
    /\ QuietEntities(fr)
    /\ ~fr.camera
    /\ ~m_enable_animations
    /\ fr.rt_resets >= 1

\* the intersection parameters of a list that count as a hit
ValidTs(tris) == {tris[i].t : i \in DOMAIN tris} \cap {t \in T : MIN_RT_DIST < t /\ t < MAX_RT_DIST}
MinValidT(tris) ==
    IF ValidTs(tris) = {} THEN MAX_RT_DIST
    ELSE CHOOSE m \in ValidTs(tris) : \A x \in ValidTs(tris) : m <= x

AfterLoop == kpc \in {"shade", "done"}

\* C9: after the loop the kept distance is the least t with MIN_RT_DIST < t < MAX_RT_DIST
\* over the triangles, and it is MAX_RT_DIST exactly when no triangle has such a t
C9_KeepsMinimumValidT ==
    AfterLoop =>
        /\ dt = MinValidT(triangles)
        /\ (dt = MAX_RT_DIST) <=> (ValidTs(triangles) = {})

\* C9 witness: three triangles, one at or below MIN_RT_DIST, and the nearest valid hit
\* is not the first triangle
C9_NearestIsNotFirst ==
    /\ AfterLoop
    /\ Len(triangles) = 3
    /\ \E i \in DOMAIN triangles : triangles[i].t <= MIN_RT_DIST
    /\ dt < MAX_RT_DIST
    /\ triangles[1].t # dt

FirstAt(tris, d) == CHOOSE i \in DOMAIN tris : tris[i].t = d /\ \A j \in 1 .. i - 1 : tris[j].t # d

\* C10: on a hit the normal kept, and the one the color is shaded with, is that of the
\* first triangle in enumeration order whose t is the minimum
C10_FirstTriangleWinsTies ==
    /\ (AfterLoop /\ dt < MAX_RT_DIST) => normal = triangles[FirstAt(triangles, dt)].n
    /\ (kpc = "done" /\ dt < MAX_RT_DIST) =>
            rgba = Vec4(Scaled(sun_dot[triangles[FirstAt(triangles, dt)].n], DiffuseColor), Unit)

\* C10 witness: two triangles with different normals tie at the minimum
C10_TieWithDifferentNormals ==
    /\ kpc = "done"
    /\ dt < MAX_RT_DIST
    /\ \E i, j \in DOMAIN triangles :
        /\ i < j
        /\ triangles[i].t = dt
        /\ triangles[j].t = dt
        /\ triangles[i].n # triangles[j].n

Hit == kpc = "done" /\ dt < MAX_RT_DIST
Miss == kpc = "done" /\ dt = MAX_RT_DIST
Rgb(c) == <<c[1], c[2], c[3]>>

\* C11 as claimed: a pixel whose ray has no valid intersection gets depth MAX_RT_DIST
\* and the configured clear color
C11_MissGetsClearColor ==
    Miss => (depth = MAX_RT_DIST /\ Rgb(rgba) = clear_color)

\* C12 as claimed: a pixel whose ray hits at a valid t gets a depth below MAX_RT_DIST
C12_HitDepthBelowSentinel ==
    Hit => depth < MAX_RT_DIST

\* C13 as claimed: on a hit every color channel written is non-negative, and the color
\* channels are zero when the light is behind the triangle (dot(normal, to_sun) <= 0)
C13_DirectLightClamped ==
    Hit =>
        /\ \A c \in 1 .. 4 : rgba[c] >= 0
        /\ sun_dot[normal] <= 0 => Rgb(rgba) = Black

C15_NoRecordNoFiles ==
    (config.output /\ config.record = "false") => (calls.save = 0 /\ files = <<>>)

\* C19 as claimed: a failed write of the image file is not logged as a success, and the
\* frame that met it still returns true
C19_WriteFailureReported ==
    /\ \A i \in DOMAIN files : ~files[i].ok => files[i].logged # "success"
    /\ (fr.kind = "full" /\ has_output_dest /\ ret = TRUE) => running

\* the keys set_virtual_world reads unconditionally
RequiredKeyAbsent(c) ==
    \/ ~c.materials
    \/ ~c.objfile
    \/ ~c.lights
    \/ c.output /\ c.folder = Absent

\* C20 as claimed: a scene file that lacks a required key ends the load with a fatal
\* error, logged before any call of Engine::frame
C20_MissingKeyIsFatal ==
    (RequiredKeyAbsent(config) /\ mpc # "load") =>
        (mpc = "fatal" /\ log # <<>> /\ fr.kind = "none")

IdentityLike(w) ==
    /\ w.am = Den
    /\ w.bm = 0
    /\ w.inv_switch_left = 0
    /\ w.inv_switch_right = Den

Center == <<Den \div 2, Den \div 2>>

\* C16: under a warp whose middle segment is the identity and whose switch points are
\* 0 and 1, whatever the three resolutions, the synthetic buffer is sampled at the
\* vertically flipped display coordinate, and for the display center at (0.5, 0.5)
C16_IdentityWarpSamplesInPlace ==
    (ppc = "shaded" /\ IdentityLike(warp_x) /\ IdentityLike(warp_y)) =>
        /\ tex_coords = <<UVs[1], Den - UVs[2]>>
        /\ UVs = Center => tex_coords = Center
        /\ frag_color.rgb.of = "syn_rgba"
        /\ frag_color.rgb.at = tex_coords

\* C16 witness: the center fragment under identity-like warps (other quadratic segments
\* on the y axis) with a synthetic buffer of 64, a neural one of 256 and a window of 512
C16_CenterOfMixedResolutions ==
    /\ ppc = "shaded"
    /\ IdentityLike(warp_x)
    /\ warp_y = IdentityLikeWarp
    /\ resolution = [nerf |-> 256, syn |-> 64, full |-> 512]
    /\ UVs = Center
    /\ frag_color.rgb.at = Center

\* C17: the output color is the rgb of the synthetic color sample at the source
\* coordinate with alpha 1, no sample of a neural texture enters it, and the output
\* depth is the synthetic depth sample at the same source coordinate
C17_SyntheticOverwrites ==
    ppc = "shaded" =>
        /\ frag_color = [rgb |-> Texture("syn_rgba", tex_coords), a |-> Unit]
        /\ gl_FragDepth = [r |-> Texture("syn_depth", tex_coords)]
        /\ gl_FragDepth.r.at = frag_color.rgb.at

\* C17 witness: a fragment off the center under the three-segment warp on both axes
C17_WarpedFragment ==
    /\ ppc = "shaded"
    /\ warp_x = ThreeSegmentWarp
    /\ warp_y = ThreeSegmentWarp
    /\ UVs = <<1, 2>>
    /\ tex_coords # <<1, Den - 2>>
    /\ frag_color.a = Unit

\* C18 as claimed: once present has bound the textures, the synthetic color texture is
\* sampled with the filter the caller selected through filter_type, and the neural
\* textures with nearest filtering
C18_CallerSelectsSyntheticFilter ==
    ppc \in {"bound", "shaded"} =>
        /\ tex_filter["syn_rgba"] = filter_type
        /\ tex_filter["nerf_rgba"] = GL_NEAREST
        /\ tex_filter["nerf_depth"] = GL_NEAREST

\* one unit of the fixed-point scale
Tolerance == 1
Near(a, b) == a - b <= Tolerance /\ b - a <= Tolerance

\* C21: for a segmented warp, unwarp is non-decreasing on [0,1], at each inverse
\* switch point the quadratic branch and the linear branch agree within tolerance, and
\* the forward warp of unwarp(y) is y within tolerance
C21_UnwarpMonotoneContinuousInverse ==
    /\ uwpc \in {"unwarped", "back"} =>
        /\ uw_x[1] <= uw_x[2]
        /\ uw_y[1] = uw_warp.inv_switch_left =>
                Near(UnwarpQuadratic(uw_warp.al, uw_warp.bl, uw_warp.cl, uw_y[1]), uw_x[1])
        /\ uw_y[1] = uw_warp.inv_switch_right =>
                Near(UnwarpQuadratic(uw_warp.ar, uw_warp.br, uw_warp.cr, uw_y[1]), uw_x[1])
    /\ uwpc = "back" => Near(uw_back, uw_y[1])

\* C21 witness: under the three-segment warp a coordinate of the left segment and one
\* of the right segment were unwarped to different values and the first warped back
C21_AcrossThreeSegments ==
    /\ uwpc = "back"
    /\ uw_warp = ThreeSegmentWarp
    /\ uw_y[1] < uw_warp.inv_switch_left
    /\ uw_y[2] > uw_warp.inv_switch_right
    /\ uw_x[1] > 0
    /\ uw_x[1] < uw_x[2]

\* all triangles of all objects, in drawing order
RECURSIVE AllTriangles(_)
AllTriangles(objs) == IF objs = <<>> THEN <<>> ELSE Head(objs) \o AllTriangles(Tail(objs))

\* the color of the nearest valid hit over a triangle list, black when there is none
NearestHitColor(tris) ==
    IF ValidTs(tris) = {} THEN Vec4(Black, Unit)
    ELSE Vec4(Scaled(sun_dot[tris[FirstAt(tris, MinValidT(tris))].n], DiffuseColor), Unit)

\* C22 as claimed: when handle has returned on a world of two or more objects, the
\* pixel has the color of the nearest valid hit over the triangles of all objects
C22_NearestOverAllObjects ==
    (hpc = "returned" /\ Len(hw_objects) >= 2) =>
        rgba = NearestHitColor(AllTriangles(hw_objects))

\* C23: when transfer_texture has returned, GL_TEXTURE_2D, GL_DEPTH_TEST and
\* GL_CULL_FACE are each enabled exactly if they were on entry, and without a blit
\* program the whole OpenGL state is the one on entry
C23_EnableStateRestored ==
    tpc = "returned" =>
        /\ gl.tex2d = tt_entry.tex2d
        /\ gl.depth_test = tt_entry.depth_test
        /\ gl.cull_face = tt_entry.cull_face
        /\ tt_blit_program = 0 => gl = tt_entry

\* a call that had to flip all three flags has drawn and returned
C23_AllThreeFlippedAndBack ==
    /\ tpc = "returned"
    /\ tt_blit_program # 0
    /\ ~tt_entry.tex2d /\ ~tt_entry.depth_test /\ tt_entry.cull_face
    /\ tt_entry.depth_func = "GL_ALWAYS" /\ gl.depth_func = "GL_LESS"

\* the names given by the loads before load i
NamesBefore(i) == {w_loads[j].name : j \in 1 .. i - 1}

\* load i got the file name if no earlier object has it, else the smallest unused
\* "<filename> k"
NamedBySmallestUnused(i) ==
    \/ /\ w_loads[i].file \notin NamesBefore(i)
       /\ w_loads[i].name = w_loads[i].file
    \/ /\ w_loads[i].file \in NamesBefore(i)
       /\ \E n \in 1 .. i :
            /\ w_loads[i].name = Renamed(w_loads[i].file, n)
            /\ Renamed(w_loads[i].file, n) \notin NamesBefore(i)
            /\ \A m \in 1 .. n - 1 : Renamed(w_loads[i].file, m) \in NamesBefore(i)

\* every call added one entry that is still the one it loaded, and the loop counter
\* never passes the number of objects
OneEntryPerLoad ==
    /\ Cardinality(DOMAIN w_objects) = Len(w_loads)
    /\ \A i \in 1 .. Len(w_loads) :
         /\ w_loads[i].name \in DOMAIN w_objects
         /\ w_objects[w_loads[i].name] = i
    /\ \A i, j \in 1 .. Len(w_loads) : i # j => w_loads[i].name # w_loads[j].name
    /\ c_k <= Cardinality(DOMAIN w_objects)

\* C24 as claimed: one entry per call, distinct names, the first object loaded from a
\* file name is named by the file name and further loads of it get the smallest
\* unused "<filename> k"; the renaming loop ends
C24_FirstLoadKeepsFileName ==
    /\ OneEntryPerLoad
    /\ \A i \in 1 .. Len(w_loads) :
         /\ NamedBySmallestUnused(i)
         /\ (\A j \in 1 .. i - 1 : w_loads[j].file # w_loads[i].file) =>
                w_loads[i].name = w_loads[i].file

\* C24 amended: one entry per call, never replacing one, distinct names, and every
\* load is named by its file name when that name is unused and by the smallest
\* unused "<filename> k" otherwise; the renaming loop ends within as many turns as
\* there are objects
C24_SmallestUnusedName ==
    /\ OneEntryPerLoad
    /\ \A i \in 1 .. Len(w_loads) : NamedBySmallestUnused(i)

\* the same file name has been loaded three times
C24_ThirdLoadOfAFile ==
    /\ cpc = "idle"
    /\ Len(w_loads) = 3
    /\ \A i \in 1 .. 3 : w_loads[i].file = "b.obj"
    /\ w_loads[3].name = "b.obj 2"

\* C25 as claimed: every teardown is performed by a Display that itself completed
\* init_window and destroys no window but that Display's own
C25_TeardownOnlyByInitialiser ==
    \A i \in 1 .. Len(teardowns) :
        /\ teardowns[i].completed
        /\ teardowns[i].destroyed \subseteq {teardowns[i].own}

\* the size of the list a pointer was taken from
SizeOf(list) == IF list = "lights" THEN lights_size ELSE objects_size
SelectedList == IF m_transform_type = "LightObj" THEN "lights" ELSE "objects"

\* C26 as claimed: after an imgui call either all four edit targets are null, or the
\* position and the dirty marker are those of element m_transform_idx of the selected
\* list, m_transform_idx is smaller than that list's size, and a light has no rotation
\* and no scale target
C26_EditTargetsConsistent ==
    imgui_called =>
        \/ /\ m_pos_to_translate = Nullptr
           /\ m_rot_to_rotate = Nullptr
           /\ m_scale_to_scale = Nullptr
           /\ m_obj_dirty_marker = Nullptr
        \/ /\ m_transform_type \in {"LightObj", "VirtualObjectObj"}
           /\ m_pos_to_translate = ElementOf(SelectedList, m_transform_idx)
           /\ m_obj_dirty_marker = ElementOf(SelectedList, m_transform_idx)
           /\ m_transform_idx < SizeOf(SelectedList)
           /\ m_transform_type = "LightObj" =>
                m_rot_to_rotate = Nullptr /\ m_scale_to_scale = Nullptr

\* the configurations that count frames
CountsFrames == has_output_dest \/ m_end_on_loop

\* a frame of the render loop that returned true
FrameReturnedTrue == mpc = "loop" /\ running /\ running'
\* a frame of the render loop on a dead display or with begin_frame returning false
FrameCutShort == mpc = "loop" /\ running /\ fr'.kind \in {"dead", "quit"}

\* C27: when an output destination or end_on_loop is set, the render loop, once
\* entered, is left; every frame that returns true there has advanced the image
\* counter by exactly one; a frame on a dead display, or whose begin_frame returns
\* false, returns false and renders, counts and writes nothing; and after the first
\* false the loop is left without another frame
C27_CountingLoopTerminates ==
    /\ (mpc = "loop" /\ CountsFrames) ~> (mpc = "done")
    /\ [][(FrameReturnedTrue /\ CountsFrames) => m_img_count' = m_img_count + 1]_vars
    /\ [][(mpc = "loop" /\ running /\ ~alive) => FrameCutShort]_vars
    /\ [][FrameCutShort =>
            /\ ~running'
            /\ rt_spp' = rt_spp
            /\ m_img_count' = m_img_count
            /\ files' = files]_vars
    /\ [][(mpc = "loop" /\ ~running) => (mpc' = "done" /\ UNCHANGED <<rt_spp, m_img_count, files>>)]_vars

\* the loop was ended by the image counter, not by the window: with end_on_loop after
\* img_count_max frames, when recording after img_count_max + 1 files
C27_EndedByTheCounter ==
    /\ mpc = "done"
    /\ fr.kind = "full"
    /\ alive
    /\ m_img_count_max >= 2
    /\ \/ has_output_dest /\ Len(files) = m_img_count_max + 1
       \/ ~has_output_dest /\ m_end_on_loop /\ calls.adv = m_img_count_max + 1

====
